---- MODULE Spec2Model ----
(***************************************************************************)
(* Model of the coherence validator of ithkuil-grammar-copilot:            *)
(*   src/src/validators/rule_extractor.py    (RuleExtractor, CaseConstraints)*)
(*   src/src/validators/cooccurrence_rules.py (CooccurrenceRules)          *)
(*   src/src/validation_engine.py             (ValidationEngine)           *)
(*   src/src/rag_system.py                    (RAGSystem.retrieve_for_case)*)
(*                                                                         *)
(* Text values are sequences of one-character strings, so that len(),      *)
(* str.isupper() and str.isalpha() are computed and not assumed.           *)
(* Confidences are kept in hundredths (0.95 is 95).                        *)
(***************************************************************************)
EXTENDS Integers, Sequences, FiniteSets, TLC

VARIABLES constructed, given, cooccurrence_rules, rag, stats, calls, last

\* given is the grammar_file the engine was constructed with, calls the number
\* of validate calls made on it; the other variables are the engine's fields
\* and the last call with what it returned
vars == <<constructed, given, cooccurrence_rules, rag, stats, calls, last>>

(***************************************************************************)
(* Bounds of the model.                                                    *)
(***************************************************************************)
\* longest grammar file (number of entries) the constructor is given
MaxEntries == 2
\* number of validate calls made on one engine
MaxCalls == 1

(***************************************************************************)
(* Text.                                                                   *)
(***************************************************************************)
UpperChars == {"A", "B", "C", "D", "E", "F", "G", "I", "L", "M", "N", "P",
               "R", "S", "T", "X", "Y", "Z"}
LowerChars == {"a", "f"}
DigitChars == {"1"}

\* str.isalpha(): non-empty and every character is a letter
isalpha(s) == Len(s) > 0 /\ \A i \in 1..Len(s) : s[i] \in UpperChars \cup LowerChars

\* str.isupper(): at least one cased character and no lowercase one
isupper(s) ==
    /\ \E i \in 1..Len(s) : s[i] \in UpperChars
    /\ \A i \in 1..Len(s) : s[i] \notin LowerChars

STA == <<"S", "T", "A">>
DYN == <<"D", "Y", "N">>
MNF == <<"M", "N", "F">>
AFF == <<"A", "F", "F">>
XYZ == <<"X", "Y", "Z">>

(***************************************************************************)
(* Python values of a candidate's fields.  kind is type(v).__name__, or    *)
(* "absent" for a key the mapping does not hold; s is the text of a str,   *)
(* n the number of an int, 0/1 of a bool, the length of a list or dict.    *)
(***************************************************************************)
Absent == [kind |-> "absent", s |-> <<>>, n |-> 0]
None == [kind |-> "NoneType", s |-> <<>>, n |-> 0]
PyStr(t) == [kind |-> "str", s |-> t, n |-> 0]
PyInt(k) == [kind |-> "int", s |-> <<>>, n |-> k]
PyBool(b) == [kind |-> "bool", s |-> <<>>, n |-> IF b THEN 1 ELSE 0]
PyList(k) == [kind |-> "list", s |-> <<>>, n |-> k]
PyDict(k) == [kind |-> "dict", s |-> <<>>, n |-> k]

\* dict.get(key): a missing key reads as None
get(v) == IF v.kind = "absent" THEN None ELSE v

\* Python truth value: None, 0, False, "", [] and {} are false
truthy(v) ==
    CASE v.kind \in {"absent", "NoneType"} -> FALSE
      [] v.kind = "str" -> v.s # <<>>
      [] OTHER -> v.n # 0

isinstance_str(v) == v.kind = "str"

(***************************************************************************)
(* rule_extractor.py                                                       *)
(***************************************************************************)
Rule(allowed, forbidden) == [allowed |-> allowed, forbidden |-> forbidden]

\* RuleExtractor.ROLE_FUNCTION_RULES: semantic role -> function compatibility
ROLE_FUNCTION_RULES ==
    ("EXPERIENCER" :> Rule({STA}, {DYN, MNF})) @@
    ("AGENT" :> Rule({DYN, MNF}, {STA})) @@
    ("PATIENT" :> Rule({STA, DYN}, {})) @@
    ("AGENT+PATIENT" :> Rule({STA, DYN}, {})) @@
    ("INSTRUMENT" :> Rule({DYN}, {STA})) @@
    ("CONTENT" :> Rule({STA, DYN, MNF}, {})) @@
    ("STIMULUS" :> Rule({STA, DYN}, {})) @@
    ("GOAL" :> Rule({DYN, MNF}, {STA})) @@
    ("PURPOSE" :> Rule({DYN, MNF}, {STA})) @@
    ("ENABLER" :> Rule({DYN, MNF}, {})) @@
    ("ACTIVATION" :> Rule({DYN, MNF}, {})) @@
    ("RECIPIENT" :> Rule({DYN}, {})) @@
    ("ATTRIBUTE" :> Rule({STA}, {})) @@
    ("POSSESSOR" :> Rule({STA}, {})) @@
    ("OWNER" :> Rule({STA}, {})) @@
    ("LOCATION" :> Rule({STA, DYN}, {})) @@
    ("ORIENTATION" :> Rule({STA, DYN}, {})) @@
    ("SOURCE" :> Rule({STA, DYN}, {})) @@
    ("PART" :> Rule({STA, DYN}, {})) @@
    ("CORRELATION" :> Rule({STA, DYN}, {})) @@
    ("DEPENDENT" :> Rule({STA, DYN}, {})) @@
    ("CONTINGENCY" :> Rule({STA, DYN}, {}))

\* variant: a role the table does not hold is treated as EXPERIENCER
DefaultRuleStrict == Rule({STA}, {DYN, MNF})

\* the default of ROLE_FUNCTION_RULES.get(semantic_role, ...): allow all
DefaultRule == Rule({STA, DYN, MNF}, {})

\* variant: only the allowed set is read
allows_function_allowed_only(c, function) ==
    IF c.allowed_functions # {} /\ function \notin c.allowed_functions
    THEN FALSE
    ELSE TRUE

\* variant: only the forbidden set is read
allows_function_forbidden_only(c, function) ==
    IF c.forbidden_functions # {} /\ function \in c.forbidden_functions
    THEN FALSE
    ELSE TRUE

\* CaseConstraints.allows_function
allows_function(c, function) ==
    IF c.forbidden_functions # {} /\ function \in c.forbidden_functions
    THEN FALSE
    ELSE IF c.allowed_functions # {} /\ function \notin c.allowed_functions
    THEN FALSE
    ELSE TRUE

\* one entry of the grammar file: item.get('type'), .get('code'),
\* .get('name', code), .get('semantic_role', 'UNKNOWN')
Entry(type, code, name, has_role, role) ==
    [type |-> type, code |-> code, name |-> name,
     has_role |-> has_role, semantic_role |-> role]

entry_role(e) == IF e.has_role THEN e.semantic_role ELSE "UNKNOWN"

\* variant: the role is never found in the table, every case gets the default
case_constraints_no_table(e) ==
    [case_name |-> e.name,
     case_abbrev |-> e.code,
     semantic_role |-> entry_role(e),
     allowed_functions |-> DefaultRule.allowed,
     forbidden_functions |-> DefaultRule.forbidden]

\* variant: the allowed and the forbidden set of the role are exchanged
case_constraints_swapped(e) ==
    LET semantic_role == entry_role(e)
        role_rules == IF semantic_role \in DOMAIN ROLE_FUNCTION_RULES
                      THEN ROLE_FUNCTION_RULES[semantic_role]
                      ELSE DefaultRule
    IN  [case_name |-> e.name,
         case_abbrev |-> e.code,
         semantic_role |-> semantic_role,
         allowed_functions |-> role_rules.forbidden,
         forbidden_functions |-> role_rules.allowed]

\* variant: every record also forbids STA
case_constraints_overlapping(e) ==
    LET semantic_role == entry_role(e)
        role_rules == IF semantic_role \in DOMAIN ROLE_FUNCTION_RULES
                      THEN ROLE_FUNCTION_RULES[semantic_role]
                      ELSE DefaultRule
    IN  [case_name |-> e.name,
         case_abbrev |-> e.code,
         semantic_role |-> semantic_role,
         allowed_functions |-> role_rules.allowed,
         forbidden_functions |-> role_rules.forbidden \cup {STA}]

\* the CaseConstraints record built for one case entry
case_constraints(e) ==
    LET semantic_role == entry_role(e)
        role_rules == IF semantic_role \in DOMAIN ROLE_FUNCTION_RULES
                      THEN ROLE_FUNCTION_RULES[semantic_role]
                      ELSE DefaultRule
    IN  [case_name |-> e.name,
         case_abbrev |-> e.code,
         semantic_role |-> semantic_role,
         allowed_functions |-> role_rules.allowed,
         forbidden_functions |-> role_rules.forbidden]

\* RuleExtractor.extract_case_constraints: a later entry of a code replaces
\* an earlier one; entries whose type is not 'case' are skipped
RECURSIVE extract_from(_, _)
extract_from(raw_data, constraints) ==
    IF raw_data = <<>> THEN constraints
    ELSE LET e == Head(raw_data)
             next == IF e.type = "case"
                     THEN [c \in DOMAIN constraints \cup {e.code} |->
                             IF c = e.code THEN case_constraints(e)
                             ELSE constraints[c]]
                     ELSE constraints
         IN  extract_from(Tail(raw_data), next)

extract_case_constraints(raw_data) == extract_from(raw_data, <<>>)

\* RuleExtractor.validate_rules: no record allows and forbids one function
validate_rules(raw_data) ==
    LET constraints == extract_case_constraints(raw_data)
    IN  \A c \in DOMAIN constraints :
            constraints[c].allowed_functions
                \cap constraints[c].forbidden_functions = {}

(***************************************************************************)
(* cooccurrence_rules.py                                                   *)
(***************************************************************************)
NoMessage ==
    [text |-> "", case |-> <<>>, case_name |-> "", function |-> <<>>,
     role |-> "", lists_allowed |-> FALSE, allowed |-> {},
     lists_forbidden |-> FALSE, forbidden |-> {}, kind |-> ""]

\* variant: an unknown case is refused (fail closed)
check_case_function_closed(constraints, case, function) ==
    IF case \notin DOMAIN constraints
    THEN [is_valid |-> FALSE, msg |-> NoMessage]
    ELSE [is_valid |-> allows_function(constraints[case], function),
          msg |-> NoMessage]

\* variant: the message leaves out the semantic role
check_case_function_no_role(constraints, case, function) ==
    IF case \notin DOMAIN constraints
    THEN [is_valid |-> TRUE, msg |-> NoMessage]
    ELSE IF ~allows_function(constraints[case], function)
    THEN [is_valid |-> FALSE,
          msg |-> [NoMessage EXCEPT
              !.text = "cannot co-occur with function",
              !.case = case,
              !.case_name = constraints[case].case_name,
              !.function = function,
              !.lists_allowed = (constraints[case].allowed_functions # {}),
              !.allowed = constraints[case].allowed_functions,
              !.lists_forbidden = (constraints[case].forbidden_functions # {}),
              !.forbidden = constraints[case].forbidden_functions]]
    ELSE [is_valid |-> TRUE, msg |-> NoMessage]

\* CooccurrenceRules.check_case_function: (is_valid, error_message)
check_case_function(constraints, case, function) ==
    IF case \notin DOMAIN constraints
    THEN [is_valid |-> TRUE, msg |-> NoMessage]
    ELSE LET constraint == constraints[case]
         IN  IF ~allows_function(constraint, function)
             THEN LET allowed == constraint.allowed_functions
                      forbidden == constraint.forbidden_functions
                  IN  [is_valid |-> FALSE,
                       msg |-> [NoMessage EXCEPT
                           !.text = "cannot co-occur with function",
                           !.case = case,
                           !.case_name = constraint.case_name,
                           !.function = function,
                           !.role = constraint.semantic_role,
                           !.lists_allowed = (allowed # {}),
                           !.allowed = allowed,
                           !.lists_forbidden = (forbidden # {}),
                           !.forbidden = forbidden]]
             ELSE [is_valid |-> TRUE, msg |-> NoMessage]

\* variant: every function is listed, whatever the record
get_allowed_functions_open(constraints, case) == {STA, DYN, MNF}

\* CooccurrenceRules.get_allowed_functions
get_allowed_functions(constraints, case) ==
    IF case \notin DOMAIN constraints
    THEN {STA, DYN, MNF}
    ELSE constraints[case].allowed_functions

(***************************************************************************)
(* rag_system.py: the retriever, as far as the engine reads it.  The       *)
(* collection holds one chunk per case entry of the grammar file; the      *)
(* query of retrieve_for_case filters on the chunk's code.                 *)
(***************************************************************************)
RECURSIVE chunk_codes(_)
chunk_codes(raw_data) ==
    IF raw_data = <<>> THEN {}
    ELSE (IF Head(raw_data).type = "case" THEN {Head(raw_data).code} ELSE {})
             \cup chunk_codes(Tail(raw_data))

\* variant: the retriever never finds a chunk
retrieve_for_case_nothing(r, case_code) ==
    [found |-> FALSE, case_code |-> <<>>]

\* RAGSystem.retrieve_for_case: the chunk of that code, or None
retrieve_for_case(r, case_code) ==
    IF case_code \in r.codes
    THEN [found |-> TRUE, case_code |-> case_code]
    ELSE [found |-> FALSE, case_code |-> <<>>]

(***************************************************************************)
(* validation_engine.py                                                    *)
(***************************************************************************)
\* confidences of _validate_semantic and the threshold of validate, in 1/100
CONF_RAG_HIT == 95
CONF_RAG_MISS == 70
CONF_NO_RAG == 90
CONF_REJECTED == 0
CONF_THRESHOLD == 85

ValidationError(level, message, slot, suggestion) ==
    [level |-> level, message |-> message, slot |-> slot,
     suggestion |-> suggestion]

Suggestion(text, functions) == [text |-> text, functions |-> functions]

\* ValidationEngine._validate_structure: a placeholder that reports nothing
_validate_structure(semantic_json) == <<>>

\* The checks of ValidationEngine._validate_coherence, last one first.  Each
\* yields the errors the call returns from there on and stages, the checks
\* the call evaluated from there on, in order.

\* a check that found nothing: the call goes on with the checks after it
then(stage, rest) ==
    [errors |-> rest.errors, stages |-> <<stage>> \o rest.stages]

\* variant: the constraint store is never consulted
coherence_lookup_skipped(rules, case, function) ==
    [errors |-> <<>>, stages |-> <<>>]

\* "Check co-occurrence rules if we have them"
coherence_lookup(rules, case, function) ==
    IF rules.loaded
    THEN LET constraints == rules.constraints
         IN  [errors |->
                 IF case.s \in DOMAIN constraints
                 THEN LET checked == check_case_function(constraints, case.s,
                                                         function.s)
                      IN  IF ~checked.is_valid
                          THEN <<ValidationError("COHERENCE", checked.msg,
                                     "case+function",
                                     Suggestion("Try one of",
                                         get_allowed_functions(constraints,
                                                               case.s)))>>
                          ELSE <<>>
                 ELSE <<>>,
              stages |-> <<"lookup">>]
    ELSE [errors |-> <<>>, stages |-> <<>>]

\* variant: only the length is tested
case_format_ok_length_only(s) == Len(s) = 3

\* len(case) == 3 and case.isupper() and case.isalpha()
case_format_ok(s) == Len(s) = 3 /\ isupper(s) /\ isalpha(s)

\* "Check case format (must be 3 uppercase letters)"
coherence_case_format(rules, case, function) ==
    IF ~case_format_ok(case.s)
    THEN [errors |-> <<ValidationError("COHERENCE",
                [NoMessage EXCEPT !.text = "Invalid case format",
                                  !.case = case.s],
                "case",
                Suggestion("Use a valid case code", {}))>>,
          stages |-> <<"case_format">>]
    ELSE then("case_format", coherence_lookup(rules, case, function))

valid_functions == {STA, DYN, MNF}

\* variant: the case format is checked before the function
coherence_function_enum_late(rules, case, function) ==
    IF ~case_format_ok(case.s)
    THEN coherence_case_format(rules, case, function)
    ELSE IF function.s \notin valid_functions
    THEN [errors |-> <<ValidationError("COHERENCE",
                [NoMessage EXCEPT !.text = "Invalid function",
                                  !.function = function.s,
                                  !.lists_allowed = TRUE,
                                  !.allowed = valid_functions],
                "function",
                Suggestion("Use STA for states or DYN for actions", {}))>>,
          stages |-> <<"case_format", "function_enum">>]
    ELSE then("function_enum", coherence_case_format(rules, case, function))

\* "Check if function is valid"
coherence_function_enum(rules, case, function) ==
    IF function.s \notin valid_functions
    THEN [errors |-> <<ValidationError("COHERENCE",
                [NoMessage EXCEPT !.text = "Invalid function",
                                  !.function = function.s,
                                  !.lists_allowed = TRUE,
                                  !.allowed = valid_functions],
                "function",
                Suggestion("Use STA for states or DYN for actions", {}))>>,
          stages |-> <<"function_enum">>]
    ELSE then("function_enum", coherence_case_format(rules, case, function))

\* "Type check - case and function must be strings", the function
coherence_type_function(rules, case, function) ==
    IF ~isinstance_str(function)
    THEN [errors |-> <<ValidationError("COHERENCE",
                [NoMessage EXCEPT !.text = "Function must be a string, got",
                                  !.kind = function.kind],
                "function",
                Suggestion("Use STA for states or DYN for actions", {}))>>,
          stages |-> <<"type_function">>]
    ELSE then("type_function", coherence_function_enum(rules, case, function))

\* variant: the type of the case is not checked
coherence_type_case_skipped(rules, case, function) ==
    then("type_case", coherence_type_function(rules, case, function))

\* "Type check - case and function must be strings", the case
coherence_type_case(rules, case, function) ==
    IF ~isinstance_str(case)
    THEN [errors |-> <<ValidationError("COHERENCE",
                [NoMessage EXCEPT !.text = "Case must be a string, got",
                                  !.kind = case.kind],
                "case",
                Suggestion("Use a 3-letter case code like AFF, ERG, ABS", {}))>>,
          stages |-> <<"type_case">>]
    ELSE then("type_case", coherence_type_function(rules, case, function))

\* variant: "and" in place of "or"
nothing_to_check_both(case, function) == ~truthy(case) /\ ~truthy(function)

\* "Handle None or missing values": if not case or not function
nothing_to_check(case, function) == ~truthy(case) \/ ~truthy(function)

\* ValidationEngine._validate_coherence
_validate_coherence(rules, semantic_json) ==
    LET case == get(semantic_json.case)
        function == get(semantic_json.function)
    IN  IF nothing_to_check(case, function)
        THEN [errors |-> <<>>, stages |-> <<"presence">>]
        ELSE then("presence", coherence_type_case(rules, case, function))

Citation(text, case) == [text |-> text, case |-> case]

\* variant: a case the retriever does not find is an error
_validate_semantic_miss_error(r, semantic_json) ==
    IF r.loaded /\ truthy(get(semantic_json.case))
           /\ isinstance_str(get(semantic_json.case))
    THEN IF retrieve_for_case(r, get(semantic_json.case).s).found
         THEN [errors |-> <<>>, confidence |-> CONF_RAG_HIT,
               citations |-> <<Citation("citation",
                                        get(semantic_json.case).s)>>,
               rag_calls |-> 1]
         ELSE [errors |-> <<ValidationError("SEMANTIC",
                               [NoMessage EXCEPT !.text = "Case not found"],
                               "case", Suggestion("", {}))>>,
               confidence |-> CONF_RAG_MISS,
               citations |-> <<>>,
               rag_calls |-> 1]
    ELSE [errors |-> <<>>, confidence |-> CONF_NO_RAG,
          citations |-> <<Citation("Grammar 7 (Cases)", <<>>)>>,
          rag_calls |-> 0]

\* ValidationEngine._validate_semantic; rag_calls counts retrieve_for_case
_validate_semantic(r, semantic_json) ==
    LET case == get(semantic_json.case)
    IN  IF r.loaded /\ truthy(case) /\ isinstance_str(case)
        THEN LET result == retrieve_for_case(r, case.s)
             IN  IF result.found
                 THEN [errors |-> <<>>, confidence |-> CONF_RAG_HIT,
                       citations |-> <<Citation("citation", result.case_code),
                                       Citation("case_name (semantic_role): description",
                                                result.case_code)>>,
                       rag_calls |-> 1]
                 ELSE [errors |-> <<>>, confidence |-> CONF_RAG_MISS,
                       citations |-> <<Citation("Warning: Case not found in grammar database",
                                                case.s)>>,
                       rag_calls |-> 1]
        ELSE [errors |-> <<>>, confidence |-> CONF_NO_RAG,
              citations |-> <<Citation("Grammar 7 (Cases)", <<>>)>>,
              rag_calls |-> 0]

ValidationResult(passed, confidence, errors, citations, needs_clarification) ==
    [passed |-> passed, confidence |-> confidence, errors |-> errors,
     citations |-> citations, needs_clarification |-> needs_clarification]

\* variant: a counter is raised by two
bump_by_two(st, counter) == [st EXCEPT ![counter] = @ + 2]

bump(st, counter) == [st EXCEPT ![counter] = @ + 1]

\* a call of validate: the verdict, the statistics after the call, the
\* coherence checks evaluated and the number of retriever calls
Call(result, st, stages, rag_calls) ==
    [result |-> result, stats |-> st, stages |-> stages,
     rag_calls |-> rag_calls]

\* variant: a confidence under the threshold rejects
validate_decision_strict(st1, coherence, semantic_result) ==
    IF coherence.errors \o semantic_result.errors # <<>>
           \/ semantic_result.confidence < CONF_THRESHOLD
    THEN Call(ValidationResult(FALSE, semantic_result.confidence,
                               coherence.errors \o semantic_result.errors,
                               semantic_result.citations, FALSE),
              bump(st1, "rejected"),
              coherence.stages, semantic_result.rag_calls)
    ELSE Call(ValidationResult(TRUE, semantic_result.confidence, <<>>,
                               semantic_result.citations, FALSE),
              bump(st1, "passed"),
              coherence.stages, semantic_result.rag_calls)

\* variant: a call that asks for clarification is not counted as passed
validate_decision_clarify_only(st1, coherence, semantic_result) ==
    IF coherence.errors \o semantic_result.errors # <<>>
    THEN Call(ValidationResult(FALSE, semantic_result.confidence,
                               coherence.errors \o semantic_result.errors,
                               semantic_result.citations, FALSE),
              bump(st1, "rejected"),
              coherence.stages, semantic_result.rag_calls)
    ELSE IF semantic_result.confidence < CONF_THRESHOLD
    THEN Call(ValidationResult(TRUE, semantic_result.confidence, <<>>,
                               semantic_result.citations, TRUE),
              bump(st1, "clarification_needed"),
              coherence.stages, semantic_result.rag_calls)
    ELSE Call(ValidationResult(TRUE, semantic_result.confidence, <<>>,
                               semantic_result.citations, FALSE),
              bump(st1, "passed"),
              coherence.stages, semantic_result.rag_calls)

\* ValidationEngine.validate, "Decision logic"
validate_decision(st1, coherence, semantic_result) ==
    LET errors == coherence.errors \o semantic_result.errors
        confidence == semantic_result.confidence
        citations == semantic_result.citations
    IN  IF errors # <<>>
        THEN Call(ValidationResult(FALSE, confidence, errors, citations, FALSE),
                  bump(st1, "rejected"),
                  coherence.stages, semantic_result.rag_calls)
        ELSE IF confidence < CONF_THRESHOLD
        THEN Call(ValidationResult(TRUE, confidence, <<>>, citations, TRUE),
                  bump(bump(st1, "clarification_needed"), "passed"),
                  coherence.stages, semantic_result.rag_calls)
        ELSE Call(ValidationResult(TRUE, confidence, <<>>, citations, FALSE),
                  bump(st1, "passed"),
                  coherence.stages, semantic_result.rag_calls)

\* variant: the retriever is asked before the coherence errors are looked at
validate_coherence_grounds_first(r, st1, semantic_json, coherence) ==
    IF coherence.errors # <<>>
    THEN Call(ValidationResult(FALSE, CONF_REJECTED, coherence.errors, <<>>, FALSE),
              bump(st1, "rejected"), coherence.stages,
              _validate_semantic(r, semantic_json).rag_calls)
    ELSE validate_decision(st1, coherence,
                           _validate_semantic(r, semantic_json))

\* variant: a rejected candidate keeps the fallback confidence and citation
validate_coherence_keeps_confidence(r, st1, semantic_json, coherence) ==
    IF coherence.errors # <<>>
    THEN Call(ValidationResult(FALSE, CONF_NO_RAG, coherence.errors,
                               <<Citation("Grammar 7 (Cases)", <<>>)>>, FALSE),
              bump(st1, "rejected"), coherence.stages, 0)
    ELSE validate_decision(st1, coherence,
                           _validate_semantic(r, semantic_json))

\* ValidationEngine.validate, "Level 2: Coherence validation" and on
validate_coherence(r, st1, semantic_json, coherence) ==
    IF coherence.errors # <<>>
    THEN Call(ValidationResult(FALSE, CONF_REJECTED, coherence.errors, <<>>, FALSE),
              bump(st1, "rejected"), coherence.stages, 0)
    ELSE validate_decision(st1, coherence,
                           _validate_semantic(r, semantic_json))

\* variant: once a candidate was rejected, every later one is
validate_after_reject(rules, r, st, semantic_json) ==
    IF st.rejected > 0
    THEN Call(ValidationResult(FALSE, CONF_REJECTED, <<>>, <<>>, FALSE),
              bump(bump(st, "total_validations"), "rejected"), <<>>, 0)
    ELSE validate_coherence(r, bump(st, "total_validations"), semantic_json,
                            _validate_coherence(rules, semantic_json))

\* ValidationEngine.validate
validate(rules, r, st, semantic_json) ==
    IF _validate_structure(semantic_json) # <<>>
    THEN Call(ValidationResult(FALSE, CONF_REJECTED,
                               _validate_structure(semantic_json), <<>>, FALSE),
              bump(bump(st, "total_validations"), "rejected"), <<>>, 0)
    ELSE validate_coherence(r, bump(st, "total_validations"), semantic_json,
                            _validate_coherence(rules, semantic_json))

\* a rate of get_stats, a / b, kept as the pair
Ratio(a, b) == [num |-> a, den |-> b]

\* ValidationEngine.get_stats: the counters, and the two rates once a call
\* was made
get_stats(st) ==
    IF st.total_validations = 0
    THEN [stats |-> st, has_rates |-> FALSE,
          pass_rate |-> Ratio(0, 1), rejection_rate |-> Ratio(0, 1)]
    ELSE [stats |-> st, has_rates |-> TRUE,
          pass_rate |-> Ratio(st.passed, st.total_validations),
          rejection_rate |-> Ratio(st.rejected, st.total_validations)]

\* ValidationEngine.__init__.  grammar_file is "none" (no path given),
\* "missing" (the path does not exist), "unreadable" (json.load raises) or
\* "ok"; rag_ok tells whether RAGSystem(grammar_file) was built or raised.
NoRules == [loaded |-> FALSE, constraints |-> <<>>]
NoRag == [loaded |-> FALSE, codes |-> {}]

init_rules(grammar_file, raw_data) ==
    IF grammar_file = "ok" /\ validate_rules(raw_data)
    THEN [loaded |-> TRUE, constraints |-> extract_case_constraints(raw_data)]
    ELSE NoRules

\* variant: the retriever is built whether or not the rules were loaded
init_rag_alone(grammar_file, raw_data, rag_ok) ==
    IF grammar_file # "none" /\ rag_ok
    THEN [loaded |-> TRUE, codes |-> chunk_codes(raw_data)]
    ELSE NoRag

init_rag(grammar_file, raw_data, rag_ok) ==
    IF init_rules(grammar_file, raw_data).loaded /\ rag_ok
    THEN [loaded |-> TRUE, codes |-> chunk_codes(raw_data)]
    ELSE NoRag

ZeroStats ==
    [total_validations |-> 0, passed |-> 0, rejected |-> 0,
     clarification_needed |-> 0]

(***************************************************************************)
(* copilot.py: CopilotPipeline.  The answer of the language model to one   *)
(* request is a text: one that holds no JSON object ("text"), one whose    *)
(* object is empty ("empty"), or one that holds an object ("json"), the    *)
(* candidate.  The prompts are kept as far as the pipeline decides on      *)
(* them: the retry prompt, by the rejection reason it carries.             *)
(***************************************************************************)
Response(kind, candidate) == [kind |-> kind, candidate |-> candidate]

\* CopilotPipeline._parse_llm_response: None, or the object found
_parse_llm_response(response) ==
    CASE response.kind = "text" -> [kind |-> "NoneType", n |-> 0,
                                     value |-> response.candidate]
      [] response.kind = "empty" -> [kind |-> "dict", n |-> 0,
                                     value |-> response.candidate]
      [] OTHER -> [kind |-> "dict", n |-> 1, value |-> response.candidate]

\* the tuple a suggest call returns, with what the call did: the number of
\* model requests, the validate calls in order (candidate and verdict), the
\* rejection reason given to the retry prompt and the engine's counters
Returned(kind, value) == [kind |-> kind, value |-> value]

NoReason == [NoMessage EXCEPT !.text = "no retry prompt"]

Outcome(suggestion, is_valid, message, attempts_used, requests, validations, retry_reason, st) ==
    [suggestion |-> suggestion, is_valid |-> is_valid, message |-> message,
     attempts_used |-> attempts_used, requests |-> requests,
     validations |-> validations, retry_reason |-> retry_reason,
     stats |-> st]

Validation(candidate, result) == [candidate |-> candidate, result |-> result]

\* the messages of the returned tuple
FailedToParse ==
    [text |-> "Failed to parse LLM response", confidence |-> 0,
     error |-> NoMessage]
ValidMessage(text, confidence) ==
    [text |-> text, confidence |-> confidence, error |-> NoMessage]
ErrorMessage(error) == [text |-> "error", confidence |-> 0, error |-> error]

\* result.errors[0].message if result.errors else default
first_error_message(result, default) ==
    IF result.errors # <<>>
    THEN result.errors[1].message
    ELSE [NoMessage EXCEPT !.text = default]

\* suggest_without_rag, from "result = self.validator.validate(suggestion)"
without_rag_validated(candidate, call) ==
    IF call.result.passed
    THEN Outcome(Returned("suggestion", candidate), TRUE,
                 ValidMessage("Valid", call.result.confidence), 0, 1,
                 <<Validation(candidate, call.result)>>, NoReason, call.stats)
    ELSE Outcome(Returned("suggestion", candidate), FALSE,
                 ErrorMessage(first_error_message(call.result,
                                                  "Unknown error")), 0, 1,
                 <<Validation(candidate, call.result)>>, NoReason, call.stats)

\* CopilotPipeline.suggest_without_rag (a tuple of three: attempts_used is 0)
suggest_without_rag(rules, r, st, response) ==
    IF _parse_llm_response(response).n = 0
    THEN Outcome(Returned("raw", response), FALSE, FailedToParse, 0, 1,
                 <<>>, NoReason, st)
    ELSE without_rag_validated(response.candidate,
             validate(rules, r, st, response.candidate))

\* variant: the retry is reported valid whatever its verdict
with_rag_retry_validated_unchecked(candidate, call, retry_candidate, retry_call) ==
    Outcome(Returned("suggestion", retry_candidate), TRUE,
            ValidMessage("Valid after retry", retry_call.result.confidence),
            2, 2,
            <<Validation(candidate, call.result),
              Validation(retry_candidate, retry_call.result)>>,
            first_error_message(call.result, "Unknown error"),
            retry_call.stats)

\* suggest_with_rag, from "retry_result = self.validator.validate(...)"
with_rag_retry_validated(candidate, call, retry_candidate, retry_call) ==
    IF retry_call.result.passed
    THEN Outcome(Returned("suggestion", retry_candidate), TRUE,
                 ValidMessage("Valid after retry",
                              retry_call.result.confidence), 2, 2,
                 <<Validation(candidate, call.result),
                   Validation(retry_candidate, retry_call.result)>>,
                 first_error_message(call.result, "Unknown error"),
                 retry_call.stats)
    ELSE Outcome(Returned("suggestion", retry_candidate), FALSE,
                 ErrorMessage(first_error_message(retry_call.result,
                                                  "Unknown")), 2, 2,
                 <<Validation(candidate, call.result),
                   Validation(retry_candidate, retry_call.result)>>,
                 first_error_message(call.result, "Unknown error"),
                 retry_call.stats)

\* suggest_with_rag, from "Retry with feedback if allowed"
with_rag_rejected(rules, r, candidate, call, retry_response, max_retries) ==
    IF max_retries > 0 /\ _parse_llm_response(retry_response).n # 0
    THEN with_rag_retry_validated(candidate, call, retry_response.candidate,
             validate(rules, r, call.stats, retry_response.candidate))
    ELSE Outcome(Returned("suggestion", candidate), FALSE,
                 ErrorMessage(first_error_message(call.result,
                                                  "Unknown error")), 1,
                 IF max_retries > 0 THEN 2 ELSE 1,
                 <<Validation(candidate, call.result)>>,
                 IF max_retries > 0
                 THEN first_error_message(call.result, "Unknown error")
                 ELSE NoReason,
                 call.stats)

\* suggest_with_rag, from "result = self.validator.validate(suggestion)"
with_rag_validated(rules, r, candidate, call, retry_response, max_retries) ==
    IF call.result.passed
    THEN Outcome(Returned("suggestion", candidate), TRUE,
                 ValidMessage("Valid", call.result.confidence), 1, 1,
                 <<Validation(candidate, call.result)>>, NoReason, call.stats)
    ELSE with_rag_rejected(rules, r, candidate, call, retry_response,
                           max_retries)

\* CopilotPipeline.suggest_with_rag; retry_response is what the model
\* answers to the retry prompt, if it is sent
suggest_with_rag(rules, r, st, response, retry_response, max_retries) ==
    IF _parse_llm_response(response).n = 0
    THEN Outcome(Returned("raw", response), FALSE, FailedToParse, 1, 1,
                 <<>>, NoReason, st)
    ELSE with_rag_validated(rules, r, response.candidate,
             validate(rules, r, st, response.candidate),
             retry_response, max_retries)

NoOutcome ==
    Outcome(Returned("none", <<>>), FALSE, FailedToParse, 0, 0, <<>>,
            NoReason, ZeroStats)

(***************************************************************************)
(* Inputs.                                                                 *)
(***************************************************************************)
aff == <<"a", "f", "f">>
AF == <<"A", "F">>
A1F == <<"A", "1", "F">>
EXPERIENCER == <<"E", "X", "P", "E", "R", "I", "E", "N", "C", "E", "R">>

GrammarFiles == {"none", "missing", "unreadable", "ok"}

\* the roles a grammar file gives its cases: every row of the table and one
\* role the table does not hold
DataRoles == DOMAIN ROLE_FUNCTION_RULES \cup {"FUNCTION"}

Entries ==
    {Entry("case", AFF, "Affective", TRUE, role) : role \in DataRoles}
        \cup {Entry("case", AFF, "Affective", FALSE, ""),
              Entry("affix", AFF, "Affective", TRUE, "AGENT")}

Datasets == UNION {[1..n -> Entries] : n \in 0..MaxEntries}

CaseValues ==
    {Absent, None, PyStr(<<>>), PyStr(AFF), PyStr(XYZ), PyStr(aff), PyStr(AF),
     PyStr(A1F), PyInt(0), PyInt(123), PyBool(TRUE), PyList(0), PyList(1)}

FunctionValues ==
    {Absent, None, PyStr(<<>>), PyStr(STA), PyStr(DYN), PyStr(MNF),
     PyStr(EXPERIENCER), PyInt(0), PyInt(456), PyDict(0), PyList(1)}

\* the fields of a candidate other than case and function
NoExtra == <<>>

Candidates ==
    {[case |-> c, function |-> f, extra |-> NoExtra] :
        c \in CaseValues, f \in FunctionValues}

QueryCases == {AFF, XYZ}
QueryFunctions == {STA, DYN, MNF, EXPERIENCER}

(***************************************************************************)
(* The state machine: one engine is constructed, then called.              *)
(***************************************************************************)
NoResult == ValidationResult(FALSE, 0, <<>>, <<>>, FALSE)

NoCall ==
    [op |-> "none",
     candidate |-> [case |-> Absent, function |-> Absent, extra |-> NoExtra],
     after |-> [case |-> Absent, function |-> Absent, extra |-> NoExtra],
     result |-> NoResult, stages |-> <<>>, rag_calls |-> 0,
     q_case |-> <<>>, q_function |-> <<>>, is_valid |-> FALSE,
     msg |-> NoMessage, allowed |-> {}, report |-> get_stats(ZeroStats),
     suggest |-> NoOutcome]

Init ==
    /\ constructed = FALSE
    /\ given = "none"
    /\ cooccurrence_rules = NoRules
    /\ rag = NoRag
    /\ stats = ZeroStats
    /\ calls = 0
    /\ last = NoCall

\* engine = ValidationEngine(grammar_kb={}, grammar_file=...)
Construct ==
    /\ ~constructed
    /\ \E grammar_file \in GrammarFiles, raw_data \in Datasets, rag_ok \in BOOLEAN :
          /\ given' = grammar_file
          /\ cooccurrence_rules' = init_rules(grammar_file, raw_data)
          /\ rag' = init_rag(grammar_file, raw_data, rag_ok)
    /\ constructed' = TRUE
    /\ stats' = ZeroStats
    /\ calls' = 0
    /\ last' = NoCall

\* variant: the call drops the fields it does not know
after_validate_stripped(semantic_json) ==
    [semantic_json EXCEPT !.extra = NoExtra]

\* the candidate mapping after validate returned: the call reads it with
\* .get() only
after_validate(semantic_json) == semantic_json

\* result = engine.validate(candidate), for a candidate of the given set,
\* while fewer than bound calls were made
ValidateFrom(candidates, bound) ==
    /\ constructed
    /\ calls < bound
    /\ \E candidate \in candidates :
          \E call \in {validate(cooccurrence_rules, rag, stats, candidate)} :
              /\ stats' = call.stats
              /\ last' = [NoCall EXCEPT !.op = "validate",
                                        !.candidate = candidate,
                                        !.after = after_validate(candidate),
                                        !.result = call.result,
                                        !.stages = call.stages,
                                        !.rag_calls = call.rag_calls]
    /\ calls' = calls + 1
    /\ UNCHANGED <<constructed, given, cooccurrence_rules, rag>>

Validate == ValidateFrom(Candidates, MaxCalls)

\* engine.cooccurrence_rules.check_case_function(case, function) and
\* engine.cooccurrence_rules.get_allowed_functions(case)
StoreQuery ==
    /\ constructed
    /\ cooccurrence_rules.loaded
    /\ \E case \in QueryCases, function \in QueryFunctions :
          \E checked \in {check_case_function(cooccurrence_rules.constraints,
                                              case, function)} :
              last' = [NoCall EXCEPT
                  !.op = "query",
                  !.q_case = case,
                  !.q_function = function,
                  !.is_valid = checked.is_valid,
                  !.msg = checked.msg,
                  !.allowed = get_allowed_functions(
                                  cooccurrence_rules.constraints, case)]
    /\ UNCHANGED <<constructed, given, cooccurrence_rules, rag, stats, calls>>

Next == Construct \/ Validate \/ StoreQuery

Spec == Init /\ [][Next]_vars

(***************************************************************************)
(* The constraint store alone: CooccurrenceRules over one CaseConstraints  *)
(* record whose allowed and forbidden sets are any sets of functions.      *)
(***************************************************************************)
StoreRecords ==
    {[case_name |-> "Affective", case_abbrev |-> AFF,
      semantic_role |-> "UNKNOWN",
      allowed_functions |-> allowed, forbidden_functions |-> forbidden] :
        allowed \in SUBSET {STA, DYN, MNF},
        forbidden \in SUBSET {STA, DYN, MNF}}

InitStore ==
    /\ constructed = TRUE
    /\ given = "ok"
    /\ \E record \in StoreRecords :
          cooccurrence_rules =
              [loaded |-> TRUE, constraints |-> (AFF :> record)]
    /\ rag = NoRag
    /\ stats = ZeroStats
    /\ calls = 0
    /\ last = NoCall

NextStore == StoreQuery

SpecStore == InitStore /\ [][NextStore]_vars

(***************************************************************************)
(* Sequences of calls on one engine: validate with candidates that carry   *)
(* extra fields, the queries of the store, and get_stats.                  *)
(***************************************************************************)
\* number of validate calls in a sequence
MaxSeqCalls == 3

SomeExtra == ("other" :> "data")

CallDatasets ==
    {<<>>,
     <<Entry("case", AFF, "Affective", TRUE, "EXPERIENCER")>>,
     <<Entry("case", AFF, "Affective", TRUE, "PATIENT")>>}

CallCandidates ==
    {[case |-> c, function |-> f, extra |-> x] :
        c \in {None, PyStr(AFF), PyStr(XYZ), PyStr(aff)},
        f \in {PyStr(STA), PyStr(DYN)},
        x \in {NoExtra, SomeExtra}}

InitCalls ==
    /\ constructed = TRUE
    /\ \E grammar_file \in {"none", "ok"}, raw_data \in CallDatasets,
          rag_ok \in BOOLEAN :
          /\ given = grammar_file
          /\ cooccurrence_rules = init_rules(grammar_file, raw_data)
          /\ rag = init_rag(grammar_file, raw_data, rag_ok)
    /\ stats = ZeroStats
    /\ calls = 0
    /\ last = NoCall

ValidateSeq == ValidateFrom(CallCandidates, MaxSeqCalls)

\* report = engine.get_stats()
GetStats ==
    /\ constructed
    /\ last' = [NoCall EXCEPT !.op = "stats", !.report = get_stats(stats)]
    /\ UNCHANGED <<constructed, given, cooccurrence_rules, rag, stats, calls>>

NextCalls == ValidateSeq \/ StoreQuery \/ GetStats

SpecCalls == InitCalls /\ [][NextCalls]_vars

(***************************************************************************)
(* The pipeline: a CopilotPipeline over one engine, asked for suggestions. *)
(* Its constructor passes the grammar file to the engine, which loads its  *)
(* rules and its retriever from it, or goes on without them.               *)
(***************************************************************************)
\* number of validate calls after which no further suggestion is asked
MaxPipelineCalls == 2

Reasoning == ("reasoning" :> "why")

PipelineCandidates ==
    {[case |-> PyStr(c[1]), function |-> PyStr(c[2]), extra |-> Reasoning] :
        c \in {<<AFF, STA>>, <<AFF, DYN>>, <<XYZ, DYN>>,
               <<AFF, EXPERIENCER>>}}

NoCandidate == [case |-> Absent, function |-> Absent, extra |-> NoExtra]

Responses ==
    {Response("text", NoCandidate), Response("empty", NoCandidate)}
        \cup {Response("json", c) : c \in PipelineCandidates}

RetryLimits == {-1, 0, 1, 2}

InitCopilot ==
    /\ constructed = TRUE
    /\ \E grammar_file \in GrammarFiles \ {"none"}, raw_data \in CallDatasets,
          rag_ok \in BOOLEAN :
          /\ given = grammar_file
          /\ cooccurrence_rules = init_rules(grammar_file, raw_data)
          /\ rag = init_rag(grammar_file, raw_data, rag_ok)
    /\ stats = ZeroStats
    /\ calls = 0
    /\ last = NoCall

\* suggestion, is_valid, message = pipeline.suggest_without_rag(user_input)
SuggestWithoutRag ==
    /\ calls < MaxPipelineCalls
    /\ \E response \in Responses :
          \E outcome \in {suggest_without_rag(cooccurrence_rules, rag, stats,
                                              response)} :
              /\ stats' = outcome.stats
              /\ calls' = calls + Len(outcome.validations)
              /\ last' = [NoCall EXCEPT !.op = "suggest_without_rag",
                                        !.suggest = outcome]
    /\ UNCHANGED <<constructed, given, cooccurrence_rules, rag>>

\* suggestion, is_valid, message, attempts_used =
\*     pipeline.suggest_with_rag(user_input, max_retries)
SuggestWithRag ==
    /\ calls < MaxPipelineCalls
    /\ \E response \in Responses, retry_response \in Responses,
          max_retries \in RetryLimits :
          \E outcome \in {suggest_with_rag(cooccurrence_rules, rag, stats,
                               response, retry_response, max_retries)} :
              /\ stats' = outcome.stats
              /\ calls' = calls + Len(outcome.validations)
              /\ last' = [NoCall EXCEPT !.op = "suggest_with_rag",
                                        !.suggest = outcome]
    /\ UNCHANGED <<constructed, given, cooccurrence_rules, rag>>

NextCopilot == SuggestWithoutRag \/ SuggestWithRag

SpecCopilot == InitCopilot /\ [][NextCopilot]_vars

(***************************************************************************)
(* The last call, as the properties below read it.                         *)
(***************************************************************************)
Validated == last.op = "validate"
Queried == last.op = "query"
TheCase == get(last.candidate.case)
TheFunction == get(last.candidate.function)
Verdict == last.result
Constraints == cooccurrence_rules.constraints

\* the candidate's case is a code the loaded store holds a record for
KnownCase ==
    /\ cooccurrence_rules.loaded
    /\ TheCase.kind = "str"
    /\ TheCase.s \in DOMAIN Constraints

CaseRole == Constraints[TheCase.s].semantic_role

Accepted == Verdict.passed /\ Verdict.errors = <<>>

(***************************************************************************)
(* C1: a case loaded with the role EXPERIENCER passes with no error when   *)
(* the function is STA, and is rejected with exactly one error, of level   *)
(* COHERENCE, when the function is DYN or MNF.                             *)
(***************************************************************************)
C1_ExperiencerStaOnly ==
    (Validated /\ KnownCase /\ CaseRole = "EXPERIENCER") =>
        /\ TheFunction = PyStr(STA) => Accepted
        /\ TheFunction \in {PyStr(DYN), PyStr(MNF)} =>
              /\ ~Verdict.passed
              /\ Len(Verdict.errors) = 1
              /\ Verdict.errors[1].level = "COHERENCE"

C1_Witness ==
    /\ Validated /\ KnownCase /\ CaseRole = "EXPERIENCER"
    /\ TheFunction = PyStr(MNF)
    /\ ~Verdict.passed

(***************************************************************************)
(* C2: a case loaded with the role AGENT or INSTRUMENT passes when the     *)
(* function is DYN and is rejected when the function is STA.               *)
(***************************************************************************)
C2_AgentInstrumentDyn ==
    (Validated /\ KnownCase /\ CaseRole \in {"AGENT", "INSTRUMENT"}) =>
        /\ TheFunction = PyStr(DYN) => Verdict.passed
        /\ TheFunction = PyStr(STA) => ~Verdict.passed

C2_Witness ==
    /\ Validated /\ KnownCase /\ CaseRole = "INSTRUMENT"
    /\ TheFunction = PyStr(STA)
    /\ ~Verdict.passed

(***************************************************************************)
(* C3: a case loaded with the role PATIENT or CONTENT passes both when the *)
(* function is STA and when it is DYN.                                     *)
(***************************************************************************)
C3_PatientContentBoth ==
    (Validated /\ KnownCase /\ CaseRole \in {"PATIENT", "CONTENT"}
        /\ TheFunction \in {PyStr(STA), PyStr(DYN)}) => Verdict.passed

C3_Witness ==
    /\ Validated /\ KnownCase /\ CaseRole = "PATIENT"
    /\ TheFunction = PyStr(DYN)
    /\ Verdict.passed

(***************************************************************************)
(* C4: open world.  For a well-formed case code the loaded store holds no  *)
(* record for, check_case_function answers valid for every function,       *)
(* get_allowed_functions answers {STA, DYN, MNF}, and validate accepts the *)
(* code with each of STA, DYN and MNF, without error.                      *)
(***************************************************************************)
WellFormedCode(s) ==
    Len(s) = 3 /\ \A i \in 1..Len(s) : s[i] \in UpperChars

C4_UnknownCaseOpen ==
    /\ (Queried /\ WellFormedCode(last.q_case)
            /\ last.q_case \notin DOMAIN Constraints) =>
          /\ last.is_valid
          /\ last.allowed = {STA, DYN, MNF}
    /\ (Validated /\ cooccurrence_rules.loaded /\ TheCase.kind = "str"
            /\ WellFormedCode(TheCase.s)
            /\ TheCase.s \notin DOMAIN Constraints
            /\ TheFunction \in {PyStr(STA), PyStr(DYN), PyStr(MNF)}) =>
          Accepted

C4_Witness ==
    /\ Validated /\ cooccurrence_rules.loaded
    /\ Constraints # <<>>
    /\ TheCase = PyStr(XYZ) /\ TheFunction = PyStr(MNF)
    /\ Accepted

(***************************************************************************)
(* C6: presence.  A candidate whose case or function is absent or null is  *)
(* accepted without error, whatever the other field holds.                 *)
(***************************************************************************)
AbsentOrNull(v) == v.kind \in {"absent", "NoneType"}

C6_AbsentPasses ==
    (Validated /\ (AbsentOrNull(last.candidate.case)
                      \/ AbsentOrNull(last.candidate.function))) =>
        Accepted

C6_Witness ==
    /\ Validated
    /\ last.candidate.case = Absent
    /\ last.candidate.function = PyInt(456)
    /\ Accepted

(***************************************************************************)
(* C5: for a code the store holds a record for, the compatibility query    *)
(* answers false exactly when the function is in the record's forbidden    *)
(* set, or the record's allowed set is not empty and does not hold the     *)
(* function; it answers true otherwise.                                    *)
(***************************************************************************)
C5_AllowsFunction ==
    (Queried /\ last.q_case \in DOMAIN Constraints) =>
        LET record == Constraints[last.q_case]
            refused ==
                \/ last.q_function \in record.forbidden_functions
                \/ /\ record.allowed_functions # {}
                   /\ last.q_function \notin record.allowed_functions
        IN  last.is_valid = ~refused

C5_Witness ==
    /\ Queried /\ last.q_case \in DOMAIN Constraints
    /\ Constraints[last.q_case].allowed_functions = {}
    /\ Constraints[last.q_case].forbidden_functions = {DYN}
    /\ last.q_function = DYN
    /\ ~last.is_valid

(***************************************************************************)
(* C7: type check.  A candidate whose case and function are both present   *)
(* and not null, one of them not a text value, is rejected with an error   *)
(* whose slot names the field that is not text and whose message names the *)
(* kind of its value; the function enumeration, the case format and the    *)
(* constraint store are not checked.                                       *)
(***************************************************************************)
NamesNonText(e, field, v) ==
    e.slot = field /\ v.kind # "str" /\ e.message.kind = v.kind

C7_NonTextRejected ==
    (Validated /\ ~AbsentOrNull(last.candidate.case)
        /\ ~AbsentOrNull(last.candidate.function)
        /\ (TheCase.kind # "str" \/ TheFunction.kind # "str")) =>
        /\ ~Verdict.passed
        /\ \E i \in 1..Len(Verdict.errors) :
              \/ NamesNonText(Verdict.errors[i], "case", TheCase)
              \/ NamesNonText(Verdict.errors[i], "function", TheFunction)
        /\ \A i \in 1..Len(last.stages) :
              last.stages[i] \notin {"function_enum", "case_format", "lookup"}

(***************************************************************************)
(* C8: function enumeration.  A candidate with a text case and a text      *)
(* function other than STA, DYN and MNF is rejected with one error, on     *)
(* slot 'function', and the constraint store is not consulted.             *)
(***************************************************************************)
C8_UnknownFunctionRejected ==
    (Validated /\ TheCase.kind = "str" /\ TheFunction.kind = "str"
        /\ TheFunction.s \notin {STA, DYN, MNF}) =>
        /\ ~Verdict.passed
        /\ Len(Verdict.errors) = 1
        /\ Verdict.errors[1].slot = "function"
        /\ \A i \in 1..Len(last.stages) : last.stages[i] # "lookup"

(***************************************************************************)
(* C9: case format.  As claimed: a candidate whose case is a text value    *)
(* that is not three uppercase letters is rejected with a case-format      *)
(* error on slot 'case', whether or not its (text) function is valid.      *)
(***************************************************************************)
CaseFormatError(e) ==
    e.slot = "case" /\ e.message.text = "Invalid case format"

StageOrder ==
    <<"presence", "type_case", "type_function", "function_enum",
      "case_format", "lookup">>

\* whether the candidate of the last call fails a check, taken alone
StageFails(stage) ==
    CASE stage = "presence" -> FALSE
      [] stage = "type_case" -> ~AbsentOrNull(TheCase) /\ TheCase.kind # "str"
      [] stage = "type_function" ->
             ~AbsentOrNull(TheFunction) /\ TheFunction.kind # "str"
      [] stage = "function_enum" ->
             TheFunction.kind = "str" /\ TheFunction.s \notin {STA, DYN, MNF}
      [] stage = "case_format" ->
             TheCase.kind = "str" /\ ~WellFormedCode(TheCase.s)
      [] stage = "lookup" ->
             /\ KnownCase
             /\ TheFunction.kind = "str"
             /\ \/ TheFunction.s \in Constraints[TheCase.s].forbidden_functions
                \/ /\ Constraints[TheCase.s].allowed_functions # {}
                   /\ TheFunction.s \notin
                          Constraints[TheCase.s].allowed_functions

\* the check an error comes from
ErrorStage(e) ==
    CASE e.message.text = "Case must be a string, got" -> 2
      [] e.message.text = "Function must be a string, got" -> 3
      [] e.message.text = "Invalid function" -> 4
      [] e.message.text = "Invalid case format" -> 5
      [] e.message.text = "cannot co-occur with function" -> 6
      [] OTHER -> 0

C10_FirstFailingStage ==
    Validated =>
        /\ Len(Verdict.errors) <= 1
        /\ Len(last.stages) <= Len(StageOrder)
        /\ last.stages = SubSeq(StageOrder, 1, Len(last.stages))
        /\ Len(Verdict.errors) = 1 =>
              LET k == ErrorStage(Verdict.errors[1])
              IN  /\ k \in 2..Len(StageOrder)
                  /\ StageFails(StageOrder[k])
                  /\ \A j \in 1..(k - 1) : ~StageFails(StageOrder[j])
                  /\ Len(last.stages) = k

C10_Witness ==
    /\ Validated
    /\ TheCase = PyStr(aff) /\ TheFunction = PyStr(EXPERIENCER)
    /\ Len(Verdict.errors) = 1
    /\ Verdict.errors[1].slot = "function"
    /\ last.stages = SubSeq(StageOrder, 1, 4)

(***************************************************************************)
(* C11: the error of a rejecting constraint lookup.  As claimed: when the   *)
(* lookup rejects a known case with a function, the verdict holds exactly   *)
(* one error, of level COHERENCE and with a slot, whose message names the   *)
(* case code, the function, the semantic role of the case, its allowed set  *)
(* and its forbidden set, and whose suggestion lists the allowed functions. *)
(***************************************************************************)
LookupRejected ==
    /\ Validated /\ KnownCase
    /\ last.stages = StageOrder
    /\ ~Verdict.passed

\* what the message says whichever sets the record has
NamesPair(e) ==
    /\ e.level = "COHERENCE"
    /\ e.slot # ""
    /\ e.message.case = TheCase.s
    /\ e.message.function = TheFunction.s
    /\ e.message.role = CaseRole
    /\ e.suggestion.functions = Constraints[TheCase.s].allowed_functions

C11_MessageNamesBothSets ==
    LookupRejected =>
        /\ Len(Verdict.errors) = 1
        /\ NamesPair(Verdict.errors[1])
        /\ Verdict.errors[1].message.lists_allowed
        /\ Verdict.errors[1].message.allowed
               = Constraints[TheCase.s].allowed_functions
        /\ Verdict.errors[1].message.lists_forbidden
        /\ Verdict.errors[1].message.forbidden
               = Constraints[TheCase.s].forbidden_functions

(***************************************************************************)
(* C11, as amended: the message names the case code, the function, the      *)
(* semantic role and the allowed set; it names the forbidden set exactly    *)
(* when that set is not empty, and has no forbidden part otherwise.         *)
(***************************************************************************)
C11_MessageNamesNonEmptySets ==
    LookupRejected =>
        /\ Len(Verdict.errors) = 1
        /\ NamesPair(Verdict.errors[1])
        /\ Verdict.errors[1].message.lists_allowed
        /\ Verdict.errors[1].message.allowed
               = Constraints[TheCase.s].allowed_functions
        /\ Verdict.errors[1].message.allowed # {}
        /\ Verdict.errors[1].message.lists_forbidden
               = (Constraints[TheCase.s].forbidden_functions # {})
        /\ Verdict.errors[1].message.forbidden
               = Constraints[TheCase.s].forbidden_functions

C11_Witness ==
    /\ LookupRejected
    /\ CaseRole = "RECIPIENT" /\ TheFunction = PyStr(STA)
    /\ Verdict.errors[1].message.lists_allowed
    /\ ~Verdict.errors[1].message.lists_forbidden

(***************************************************************************)
(* C12: verdict policy.  A verdict with an error has passed = false; a      *)
(* verdict without error has passed = true, and asks for clarification      *)
(* exactly when its confidence is under 0.85: a low confidence alone never  *)
(* rejects.                                                                 *)
(***************************************************************************)
C12_VerdictPolicy ==
    Validated =>
        /\ Verdict.errors # <<>> => ~Verdict.passed
        /\ Verdict.errors = <<>> =>
              /\ Verdict.passed
              /\ Verdict.needs_clarification
                     = (Verdict.confidence < CONF_THRESHOLD)

C12_Witness ==
    /\ Validated
    /\ Verdict.errors = <<>>
    /\ Verdict.confidence = CONF_RAG_MISS
    /\ Verdict.passed /\ Verdict.needs_clarification

(***************************************************************************)
(* C13: fail fast.  As claimed: an engine given rule data that cannot be    *)
(* loaded (malformed, or inconsistent) is never left in a state where       *)
(* validate serves candidates without the constraint lookup: no validate    *)
(* call on such an engine returns a verdict reached without the lookup.     *)
(***************************************************************************)
LookupApplied == \E i \in 1..Len(last.stages) : last.stages[i] = "lookup"

C13_NoDegradedEngine ==
    (Validated /\ given = "unreadable" /\ Accepted
        /\ TheCase.kind = "str" /\ WellFormedCode(TheCase.s)
        /\ TheFunction.kind = "str" /\ TheFunction.s \in valid_functions) =>
        LookupApplied

(***************************************************************************)
(* C14: as claimed, the extractor fails on a dataset without case entries   *)
(* and on a case entry that lacks its semantic_role: a store that loaded    *)
(* has at least one record, and none built from an entry without role (the  *)
(* role of such a record reads UNKNOWN).                                    *)
(***************************************************************************)
C14_ExtractorRejectsBadData ==
    (constructed /\ given = "ok" /\ cooccurrence_rules.loaded) =>
        /\ DOMAIN Constraints # {}
        /\ \A c \in DOMAIN Constraints :
              Constraints[c].semantic_role # "UNKNOWN"

(***************************************************************************)
(* C15: the rules are consistent.  Every row of the role table and the      *)
(* default have disjoint allowed and forbidden sets, so has every record    *)
(* of a loaded store, and a readable grammar file always loads: the         *)
(* inconsistency error is never raised.                                     *)
(***************************************************************************)
C15_RulesConsistent ==
    /\ \A role \in DOMAIN ROLE_FUNCTION_RULES :
          ROLE_FUNCTION_RULES[role].allowed
              \cap ROLE_FUNCTION_RULES[role].forbidden = {}
    /\ DefaultRule.allowed \cap DefaultRule.forbidden = {}
    /\ \A c \in DOMAIN Constraints :
          Constraints[c].allowed_functions
              \cap Constraints[c].forbidden_functions = {}
    /\ (constructed /\ given = "ok") => cooccurrence_rules.loaded

C15_Witness ==
    /\ constructed /\ given = "ok" /\ cooccurrence_rules.loaded
    /\ \E c \in DOMAIN Constraints :
          /\ Constraints[c].semantic_role = "AGENT"
          /\ Constraints[c].forbidden_functions = {STA}

(***************************************************************************)
(* C16: default role.  A record whose role is missing (UNKNOWN) or is not   *)
(* a key of the role table allows STA, DYN and MNF and forbids nothing,     *)
(* and validate accepts its case with each of the three functions.          *)
(***************************************************************************)
C16_UnknownRoleAllowsAll ==
    /\ \A c \in DOMAIN Constraints :
          Constraints[c].semantic_role \notin DOMAIN ROLE_FUNCTION_RULES =>
              /\ Constraints[c].allowed_functions = {STA, DYN, MNF}
              /\ Constraints[c].forbidden_functions = {}
    /\ (Validated /\ KnownCase
            /\ CaseRole \notin DOMAIN ROLE_FUNCTION_RULES
            /\ TheFunction \in {PyStr(STA), PyStr(DYN), PyStr(MNF)}) =>
          Accepted

C16_Witness ==
    /\ Validated /\ KnownCase
    /\ CaseRole = "FUNCTION"
    /\ TheFunction = PyStr(MNF)
    /\ Accepted

(***************************************************************************)
(* C17: the counters of one call.  As claimed: every validate call raises   *)
(* total_validations by one and raises exactly one of passed, rejected and  *)
(* clarification_needed by one, leaving the other two as they were.         *)
(***************************************************************************)
ValidateStep == calls' = calls + 1

Raised(counter) == stats'[counter] = stats[counter] + 1
Kept(counter) == stats'[counter] = stats[counter]

C17_ExactlyOneCounter ==
    [][ValidateStep =>
          /\ Raised("total_validations")
          /\ \/ Raised("passed") /\ Kept("rejected")
                    /\ Kept("clarification_needed")
             \/ Kept("passed") /\ Raised("rejected")
                    /\ Kept("clarification_needed")
             \/ Kept("passed") /\ Kept("rejected")
                    /\ Raised("clarification_needed")]_vars

(***************************************************************************)
(* C17, as amended: every validate call raises total_validations by one     *)
(* and exactly one of passed and rejected by one; clarification_needed is   *)
(* raised by one, together with passed, when the verdict asks for           *)
(* clarification, and is left as it was otherwise.                          *)
(***************************************************************************)
C17_OneOutcomeCounter ==
    [][ValidateStep =>
          /\ Raised("total_validations")
          /\ \/ Raised("passed") /\ Kept("rejected")
             \/ Kept("passed") /\ Raised("rejected")
          /\ IF last'.result.needs_clarification
             THEN Raised("clarification_needed") /\ Raised("passed")
             ELSE Kept("clarification_needed")]_vars

C17_Witness ==
    /\ Validated /\ calls >= 2
    /\ Verdict.needs_clarification
    /\ stats.clarification_needed >= 1
    /\ stats.rejected >= 1

(***************************************************************************)
(* C18: the counters over a sequence of calls.  A call that returns         *)
(* passed = true raised passed by one and left rejected as it was, a call   *)
(* that returns passed = false did the converse; total_validations is the   *)
(* number of calls and is passed + rejected, no counter decreases,          *)
(* clarification_needed is at most passed, and the pass rate of get_stats   *)
(* is passed / total, between 0 and 1.                                      *)
(***************************************************************************)
CountersAgree ==
    /\ stats.total_validations = calls
    /\ stats.total_validations = stats.passed + stats.rejected
    /\ stats.clarification_needed <= stats.passed
    /\ stats.passed >= 0 /\ stats.rejected >= 0
    /\ stats.clarification_needed >= 0
    /\ (last.op = "stats" /\ last.report.has_rates) =>
          /\ last.report.pass_rate = Ratio(stats.passed, calls)
          /\ last.report.pass_rate.den > 0
          /\ 0 <= last.report.pass_rate.num
          /\ last.report.pass_rate.num <= last.report.pass_rate.den

CountersFollowVerdict ==
    /\ \A counter \in DOMAIN stats : stats'[counter] >= stats[counter]
    /\ ValidateStep =>
          IF last'.result.passed
          THEN Raised("passed") /\ Kept("rejected")
          ELSE Raised("rejected") /\ Kept("passed")

C18_CountersOverCalls == []CountersAgree /\ [][CountersFollowVerdict]_vars

C18_Witness ==
    /\ last.op = "stats" /\ last.report.has_rates
    /\ calls = 3
    /\ last.report.pass_rate = Ratio(2, 3)
    /\ stats.rejected = 1
    /\ stats.clarification_needed = 1

(***************************************************************************)
(* C19: for a constructed engine, the verdict of validate is a function of  *)
(* the candidate's case and function: it is the verdict a first call on     *)
(* that engine returns for the candidate stripped of its other fields, so   *)
(* two calls that agree on case and function return equal verdicts,         *)
(* whatever else the candidates hold and whatever was validated before.     *)
(***************************************************************************)
FirstVerdict(case, function) ==
    validate(cooccurrence_rules, rag, ZeroStats,
             [case |-> case, function |-> function, extra |-> NoExtra]).result

C19_VerdictOfCaseAndFunction ==
    Validated =>
        Verdict = FirstVerdict(last.candidate.case, last.candidate.function)

C19_Witness ==
    /\ Validated /\ calls >= 2
    /\ stats.rejected >= 1 /\ stats.clarification_needed >= 1
    /\ last.candidate.extra = SomeExtra
    /\ TheCase = PyStr(AFF) /\ TheFunction = PyStr(STA)
    /\ Accepted

(***************************************************************************)
(* C20: frame.  A validate call leaves the candidate mapping as it was,     *)
(* extra fields included, and no call (validate, check_case_function,       *)
(* get_allowed_functions, get_stats) changes the loaded records or the      *)
(* retriever; only validate changes the counters.                           *)
(***************************************************************************)
C20_OnlyCountersWritten ==
    [][/\ ValidateStep => last'.after = last'.candidate
       /\ constructed =>
             /\ cooccurrence_rules' = cooccurrence_rules
             /\ rag' = rag
             /\ given' = given
       /\ ~ValidateStep => stats' = stats]_vars

C20_Witness ==
    /\ Queried /\ calls >= 2
    /\ stats.rejected >= 1
    /\ last.q_case \in DOMAIN Constraints
    /\ Constraints[last.q_case].forbidden_functions = {DYN, MNF}

(***************************************************************************)
(* C21: grounding of a verdict without coherence error.  The retriever is   *)
(* asked when it is present and the candidate has a text case.  Asked and   *)
(* finding the case: confidence 0.95 and the retrieved citation among the   *)
(* citations.  Asked and finding nothing: the verdict passes, confidence    *)
(* 0.70, clarification needed.  Retriever absent: confidence 0.90 and the   *)
(* one generic citation.  Hence an accepted pair whose case the dataset     *)
(* holds has confidence at least 0.90 and a citation.                       *)
(***************************************************************************)
RetrieverAsked ==
    rag.loaded /\ TheCase.kind = "str" /\ TheCase.s # <<>>

GenericCitation == Citation("Grammar 7 (Cases)", <<>>)

Retrievers ==
    {NoRag,
     [loaded |-> TRUE, codes |-> {}],
     [loaded |-> TRUE, codes |-> {AFF, XYZ, aff, AF, A1F}]}

VerdictWith(r) ==
    validate(cooccurrence_rules, r, ZeroStats, last.candidate).result

C22_RetrieverNeverDecides ==
    Validated =>
        \A r \in Retrievers :
            /\ VerdictWith(r).passed = Verdict.passed
            /\ VerdictWith(r).errors = Verdict.errors

C22_Witness ==
    /\ Validated /\ RetrieverAsked
    /\ TheCase = PyStr(XYZ) /\ TheFunction = PyStr(STA)
    /\ Verdict.passed
    /\ Verdict.confidence = CONF_RAG_MISS
    /\ VerdictWith(NoRag).confidence = CONF_NO_RAG

(***************************************************************************)
(* C23: validate never raises.  What each check does with the two values,   *)
(* in Python: the function enumeration and the lookup hash them (a list or  *)
(* a dict is unhashable: TypeError), the case format takes len() and calls  *)
(* isupper() and isalpha() (none of these on a number, a bool or None; no   *)
(* str methods on a list or a dict), the retriever query takes a text.      *)
(* The presence and type checks accept every value.                         *)
(***************************************************************************)
Hashable(v) == v.kind \notin {"list", "dict"}

StageRaises(stage, case, function) ==
    CASE stage = "function_enum" -> ~Hashable(function)
      [] stage = "case_format" -> case.kind # "str"
      [] stage = "lookup" -> ~Hashable(case) \/ ~Hashable(function)
      [] OTHER -> FALSE

C23_ValidateNeverRaises ==
    Validated =>
        /\ \A i \in 1..Len(last.stages) :
              ~StageRaises(last.stages[i], TheCase, TheFunction)
        /\ last.rag_calls > 0 => TheCase.kind = "str"

C23_Witness ==
    /\ Validated
    /\ TheCase = PyList(1) /\ TheFunction = PyStr(STA)
    /\ ~Verdict.passed
    /\ Len(Verdict.errors) = 1
    /\ last.stages = <<"presence", "type_case">>


(***************************************************************************)
(* The pipeline's last suggest call, as the properties below read it.      *)
(***************************************************************************)
Suggested == last.op \in {"suggest_without_rag", "suggest_with_rag"}

TheOutcome == last.suggest

\* the validate call whose candidate and verdict the returned tuple reports
ReportedBy(v) ==
    /\ TheOutcome.suggestion = Returned("suggestion", v.candidate)
    /\ TheOutcome.is_valid = v.result.passed
    /\ IF v.result.passed
       THEN /\ TheOutcome.message.confidence = v.result.confidence
            /\ TheOutcome.message.error = NoMessage
       ELSE /\ v.result.errors # <<>>
            /\ TheOutcome.message = ErrorMessage(v.result.errors[1].message)

\* C24: the validator has the veto in the pipeline.  In suggest_without_rag
\* and suggest_with_rag, is_valid is true only for a suggestion that the
\* validator passed in this call; the returned suggestion is the one whose
\* verdict the tuple reports; a suggestion the validator rejected is never
\* returned as valid; a response that cannot be parsed is returned invalid
\* and the validator is not called for it.
C24_ValidatorVeto ==
    Suggested =>
        /\ TheOutcome.is_valid =>
              \E i \in DOMAIN TheOutcome.validations :
                  /\ TheOutcome.validations[i].result.passed
                  /\ TheOutcome.suggestion =
                        Returned("suggestion",
                                 TheOutcome.validations[i].candidate)
        /\ TheOutcome.suggestion.kind = "suggestion" =>
              \E i \in DOMAIN TheOutcome.validations :
                  ReportedBy(TheOutcome.validations[i])
        /\ \A i \in DOMAIN TheOutcome.validations :
              (/\ ~TheOutcome.validations[i].result.passed
               /\ TheOutcome.suggestion =
                     Returned("suggestion",
                              TheOutcome.validations[i].candidate))
                  => ~TheOutcome.is_valid
        /\ TheOutcome.suggestion.kind = "raw" =>
              /\ ~TheOutcome.is_valid
              /\ TheOutcome.validations = <<>>
              /\ TheOutcome.message = FailedToParse
              /\ _parse_llm_response(TheOutcome.suggestion.value).n = 0
        /\ TheOutcome.suggestion.kind \in {"raw", "suggestion"}

\* a retry: the first suggestion was rejected and the second one, which the
\* validator rejected too, is returned as invalid with its own error
C24_Witness ==
    /\ last.op = "suggest_with_rag"
    /\ Len(TheOutcome.validations) = 2
    /\ ~TheOutcome.validations[1].result.passed
    /\ ~TheOutcome.validations[2].result.passed
    /\ TheOutcome.validations[1].candidate # TheOutcome.validations[2].candidate
    /\ ReportedBy(TheOutcome.validations[2])
    /\ ~TheOutcome.is_valid


\* C26: suggest_with_rag is a bounded retry.  For every max_retries a call
\* makes at most two model requests and at most two validate calls; the retry
\* request is made only after the first suggestion was parsed and rejected;
\* the retry prompt carries the message of the first error of the rejected
\* verdict; attempts_used is 1 or 2 and equals the number of model requests.
C26_BoundedRetry ==
    last.op = "suggest_with_rag" =>
        /\ TheOutcome.requests \in {1, 2}
        /\ Len(TheOutcome.validations) <= 2
        /\ TheOutcome.requests = 2 =>
              /\ TheOutcome.validations # <<>>
              /\ ~TheOutcome.validations[1].result.passed
              /\ TheOutcome.validations[1].result.errors # <<>>
              /\ TheOutcome.retry_reason =
                    TheOutcome.validations[1].result.errors[1].message
        /\ TheOutcome.attempts_used \in {1, 2}
        /\ TheOutcome.attempts_used = TheOutcome.requests


\* the presence, type, function-enumeration and case-format checks have all
\* been applied to the candidate of the last call
ChecksApplied ==
    \A k \in 1..5 :
        \E i \in 1..Len(last.stages) : last.stages[i] = StageOrder[k]

\* C25, as claimed: the retriever is invoked at most once per validate call,
\* only in calls in which the presence, type, function-enumeration and
\* case-format checks have all been applied to the candidate and passed, and
\* never in a call that returns an error.
C25_RetrieverAfterChecks ==
    Validated =>
        /\ last.rag_calls <= 1
        /\ last.rag_calls > 0 =>
              /\ ChecksApplied
              /\ \A k \in 1..5 : ~StageFails(StageOrder[k])
              /\ Verdict.errors = <<>>

\* C25, amended: the retriever is invoked at most once per validate call,
\* never in a call that returns an error, and only with a case that is a
\* non-empty text; in such a call either the function is present too and the
\* presence, type, function-enumeration and case-format checks have all been
\* applied and passed, or the presence check found no function and ended the
\* coherence stage, so that the other checks were not applied to the case.
\* A call without error on an engine with a retriever and a candidate whose
\* case is a non-empty text invokes it.
C25_RetrieverAfterCoherence ==
    Validated =>
        /\ last.rag_calls <= 1
        /\ last.rag_calls > 0 =>
              /\ Verdict.errors = <<>>
              /\ rag.loaded
              /\ TheCase.kind = "str" /\ TheCase.s # <<>>
              /\ \/ /\ truthy(TheFunction)
                    /\ ChecksApplied
                    /\ \A k \in 1..5 : ~StageFails(StageOrder[k])
                 \/ /\ ~truthy(TheFunction)
                    /\ last.stages = <<"presence">>
        /\ (Verdict.errors = <<>> /\ RetrieverAsked) => last.rag_calls = 1

\* the retriever is asked about a malformed case of a candidate without
\* function, to which only the presence check was applied
C25_Witness ==
    /\ Validated
    /\ TheCase = PyStr(aff)
    /\ last.candidate.function = Absent
    /\ last.stages = <<"presence">>
    /\ last.rag_calls = 1
    /\ Verdict.passed
    /\ Verdict.confidence = CONF_RAG_MISS


\* the roles and the function the table neither allows nor forbids for them
Unlisted ==
    [role \in {"PATIENT", "INSTRUMENT"} |-> MNF]
        @@ [role \in {"RECIPIENT", "ENABLER", "ACTIVATION"} |-> STA]
        @@ [role \in {"ATTRIBUTE", "POSSESSOR", "OWNER"} |-> DYN]

\* C27: for every record the extractor can produce the query accepts a
\* function exactly when it is in the record's allowed set, and the forbidden
\* set never changes an answer; a function that is neither allowed nor
\* forbidden (MNF for PATIENT or INSTRUMENT, STA for RECIPIENT, ENABLER or
\* ACTIVATION, DYN for ATTRIBUTE, POSSESSOR or OWNER) is rejected by validate.
C27_AllowedSetDecides ==
    /\ \A role \in DOMAIN Unlisted :
          /\ Unlisted[role] \notin ROLE_FUNCTION_RULES[role].allowed
          /\ Unlisted[role] \notin ROLE_FUNCTION_RULES[role].forbidden
    /\ cooccurrence_rules.loaded =>
          \A case \in DOMAIN Constraints :
              \A function \in QueryFunctions :
                  /\ allows_function(Constraints[case], function)
                        = (function \in Constraints[case].allowed_functions)
                  /\ allows_function(Constraints[case], function)
                        = allows_function([Constraints[case] EXCEPT
                                              !.forbidden_functions = {}],
                                          function)
    /\ (Queried /\ last.q_case \in DOMAIN Constraints) =>
          last.is_valid
              = (last.q_function \in Constraints[last.q_case].allowed_functions)
    /\ (Validated /\ KnownCase /\ TheFunction.kind = "str"
            /\ TheFunction.s \in valid_functions
            /\ TheFunction.s \notin Constraints[TheCase.s].allowed_functions
            /\ TheFunction.s \notin Constraints[TheCase.s].forbidden_functions) =>
          /\ ~Verdict.passed
          /\ Len(Verdict.errors) = 1
          /\ ErrorStage(Verdict.errors[1]) = 6

\* MNF, which the INSTRUMENT row neither allows nor forbids, is rejected
C27_Witness ==
    /\ Validated /\ KnownCase
    /\ CaseRole = "INSTRUMENT"
    /\ TheFunction = PyStr(MNF)
    /\ MNF \notin Constraints[TheCase.s].forbidden_functions
    /\ ~Verdict.passed
    /\ LookupApplied


\* the candidate of the last call is one the presence, type, enumeration and
\* case-format checks let through
PassesChecks ==
    /\ TheCase.kind = "str" /\ WellFormedCode(TheCase.s)
    /\ TheFunction.kind = "str" /\ TheFunction.s \in valid_functions

\* C28: an engine built without rules (no grammar file given, the file
\* missing, or its load raised) skips the lookup: every candidate that passes
\* the presence, type, enumeration and case-format checks is accepted, AFF
\* with DYN included, with confidence 0.90, the generic citation and
\* needs_clarification = false.  In every reachable engine state a loaded
\* retriever implies loaded rules.
C28_NoRulesAcceptsAll ==
    /\ rag.loaded => cooccurrence_rules.loaded
    /\ (constructed /\ given \in {"none", "missing", "unreadable"}) =>
          ~cooccurrence_rules.loaded
    /\ (Validated /\ ~cooccurrence_rules.loaded) =>
          /\ ~LookupApplied
          /\ PassesChecks =>
                /\ Accepted
                /\ last.stages = SubSeq(StageOrder, 1, 5)
                /\ Verdict.confidence = CONF_NO_RAG
                /\ Verdict.citations = <<GenericCitation>>
                /\ ~Verdict.needs_clarification

\* AFF with DYN is accepted by an engine whose load of the grammar file raised
C28_Witness ==
    /\ Validated
    /\ given = "unreadable"
    /\ ~cooccurrence_rules.loaded /\ ~rag.loaded
    /\ TheCase = PyStr(AFF) /\ TheFunction = PyStr(DYN)
    /\ Accepted
    /\ Verdict.confidence = CONF_NO_RAG


\* C29: every verdict is consistent.  passed holds exactly when errors is
\* empty; a rejected verdict has confidence 0.0, no citations and
\* needs_clarification = false; needs_clarification implies passed and a
\* confidence under 0.85; every error has level COHERENCE; the confidence is
\* one of 0.0, 0.70, 0.90 and 0.95.
C29_VerdictConsistent ==
    Validated =>
        /\ Verdict.passed <=> Verdict.errors = <<>>
        /\ ~Verdict.passed =>
              /\ Verdict.confidence = CONF_REJECTED
              /\ Verdict.citations = <<>>
              /\ ~Verdict.needs_clarification
        /\ Verdict.needs_clarification =>
              /\ Verdict.passed
              /\ Verdict.confidence < CONF_THRESHOLD
        /\ \A i \in 1..Len(Verdict.errors) :
              Verdict.errors[i].level = "COHERENCE"
        /\ Verdict.confidence
              \in {CONF_REJECTED, CONF_RAG_MISS, CONF_NO_RAG, CONF_RAG_HIT}
        /\ CONF_REJECTED = 0 /\ CONF_RAG_MISS = 70
        /\ CONF_NO_RAG = 90 /\ CONF_RAG_HIT = 95 /\ CONF_THRESHOLD = 85

\* a candidate rejected by an engine whose retriever holds its case
C29_Witness ==
    /\ Validated
    /\ rag.loaded /\ TheCase.kind = "str" /\ TheCase.s \in rag.codes
    /\ ~Verdict.passed
    /\ Len(Verdict.errors) = 1
    /\ Verdict.confidence = CONF_REJECTED
    /\ Verdict.citations = <<>>

\* the verdict of the last call's candidate with its function replaced
VerdictFor(f) ==
    validate(cooccurrence_rules, rag, ZeroStats,
             [last.candidate EXCEPT !.function = PyStr(f)]).result

\* C30: the suggestion of a lookup rejection lists at least one function,
\* never the rejected one, and replacing the candidate's function by any
\* listed one yields a candidate that is accepted.
C30_SuggestionRepairs ==
    LookupRejected =>
        /\ Len(Verdict.errors) = 1
        /\ Verdict.errors[1].suggestion.text = "Try one of"
        /\ Verdict.errors[1].suggestion.functions # {}
        /\ TheFunction.s \notin Verdict.errors[1].suggestion.functions
        /\ \A f \in Verdict.errors[1].suggestion.functions :
              /\ VerdictFor(f).passed
              /\ VerdictFor(f).errors = <<>>

\* DYN is rejected for an EXPERIENCER case and the suggestion lists STA alone
C30_Witness ==
    /\ LookupRejected
    /\ CaseRole = "EXPERIENCER"
    /\ TheFunction = PyStr(DYN)
    /\ Verdict.errors[1].suggestion.functions = {STA}
    /\ VerdictFor(STA).passed

====
